---- MODULE Spec2Model ----
(***************************************************************************)
(* A model of the ranking backend: the heap-based selection engine          *)
(* (MinHeap / MaxHeap of apiManager.js), the aggregation and refresh of     *)
(* the three ranked views (top users, latest posts, popular posts), the     *)
(* two cache layers (the TTL store of cacheManager.js in front of the       *)
(* un-expiring NodeCache instances of apiManager.js) and the session token  *)
(* provider (authenticate / getAuthToken).                                  *)
(*                                                                          *)
(* Six specifications share the variables:                                  *)
(*   SpecSel   the selection loops of getTopUsers / getLatestPosts /        *)
(*             getPopularPosts, one loop iteration per step;                *)
(*   Spec      the HTTP read path and the scheduled refreshes, one          *)
(*             suspension point (await) per step;                           *)
(*   SpecAgg   one aggregation at a time against a collaborator that does   *)
(*             not change while it runs;                                    *)
(*   SpecHeap  one MinHeap or MaxHeap under any sequence of calls;          *)
(*   SpecTtl   cacheService (the TTL store) with a clock;                   *)
(*   SpecAuth  the token provider with its renewal timers and a clock.      *)
(***************************************************************************)
EXTENDS Integers, Sequences, FiniteSets, TLC

\* ------------------------------------------------------------------ bounds

\* SpecSel: the longest user list and the largest post count drawn.
MaxUsers == 7
MaxPostCount == 2
\* SpecSel: the longest post list for the latest / popular extraction.
MaxPosts == 6
MaxPopular == 4
\* SpecAuth: the clock's step and horizon (seconds), the exchanges that may
\* succeed, and the callers of getAuthToken.
TimeStep == 60
MaxTime == 480
MaxExchanges == 3
MaxCallers == 2
\* Spec: the users the collaborator lists, and the posts and comments it may
\* receive in a run.
MaxUpUsers == 1
MaxUpChanges == 2
\* SpecAgg: the users the collaborator lists and the posts and comments it
\* holds when the operation runs.
\* SpecHeap: the inserts made in a run and the largest key inserted.
MaxHeapInserts == 5
MaxHeapKey == 2
\* SpecTtl: the clock's step and horizon (seconds).
TtlStep == 60
TtlMaxTime == 360
MaxAggUsers == 3
MaxAggChanges == 3

\* ------------------------------------------------------- program constants

\* The capacity of the bounded selection and the fixed extraction count.
TopK == 5

\* The value extractMin / extractMax / peek return on an empty heap.
Null == [isNull |-> TRUE]

Min(a, b) == IF a < b THEN a ELSE b

\* ---------------------------------------------------------------- state

\* SpecSel: one selection in progress.
VARIABLES
  selMode,      \* "users" | "latest" | "popular": which selection runs
  selInput,     \* userWithPosts / allPosts: the list the selection reads
  selIdx,       \* the next element of selInput to insert
  selHeap,      \* MinHeap.heap / MaxHeap.heap
  selAux,       \* extractCount (latest) or maxComments (popular)
  selOut,       \* topUsers / latestPosts / mostCommentedPosts, then the result
  selPc         \* "collect" | "insert" | "extract" | "done"

selVars == <<selMode, selInput, selIdx, selHeap, selAux, selOut, selPc>>

\* SpecAuth: the session token provider.
VARIABLES
  now,            \* Date.now(), in seconds
  authToken,      \* authCache 'authToken': NoToken or the token stored
  timers,         \* the renewal jobs scheduled and not yet fired
  inflight,       \* the POST /auth requests awaiting their answer, by origin
  issued,         \* how many exchanges have succeeded
  lastReturn,     \* how the latest authenticate / getAuthToken call ended
  pendingFailure, \* the origin of an exchange that failed, until getAuthToken is called
  lastCall,       \* what the latest getAuthToken call found and did
  scheduled       \* the refresh jobs registered by initScheduledTasks, in order

authVars ==
  <<now, authToken, timers, inflight, issued, lastReturn, pendingFailure, lastCall,
    scheduled>>

\* Spec: the collaborator, the operations in flight and the two cache layers.
VARIABLES
  client,     \* the endpoint the client polls: its handler
  upUsers,    \* GET /users of the collaborator: the user ids, in listing order
  upPosts,    \* the collaborator's posts; post i is [userId, comments]
  proc,       \* per operation: where it is suspended and what it has fetched
  apiCache,   \* userCache / latestPostsCache / popularPostsCache (no TTL)
  ttlStore,   \* cacheService: usersCache 'topUsers', postsCache 'latest_posts', 'popular_posts'
  effect,     \* what the latest step did: a response sent, a refresh storing or ending
  lastWrite   \* per view: the latest write to either cache layer

serveVars == <<client, upUsers, upPosts, proc, apiCache, ttlStore, effect, lastWrite>>

\* What a specification leaves alone.
SelFrame == UNCHANGED <<authVars, serveVars>>
AuthFrame == UNCHANGED <<selVars, serveVars>>
ServeFrame == UNCHANGED <<selVars, authVars>>

\* ------------------------------------------------------------ heap helpers
\* The heap array is 0-indexed in the source; heap[i + 1] is its element i.

getParentIndex(index) == (index - 1) \div 2

\* A heap that takes the right child for the left one.
getLeftChildIndex_AsRight(index) == 2 * index + 2

getLeftChildIndex(index) == 2 * index + 1

getRightChildIndex(index) == 2 * index + 2

swap(heap, index1, index2) ==
  [heap EXCEPT ![index1 + 1] = heap[index2 + 1], ![index2 + 1] = heap[index1 + 1]]

\* ---------------------------------------------------------------- MinHeap

RECURSIVE MinHeap_heapifyUp(_, _)
MinHeap_heapifyUp(heap, index) ==
  LET parentIndex == getParentIndex(index) IN
  IF index > 0 /\ heap[parentIndex + 1].postCount > heap[index + 1].postCount
    THEN MinHeap_heapifyUp(swap(heap, index, parentIndex), parentIndex)
    ELSE heap

MinHeap_insert(heap, user) == MinHeap_heapifyUp(Append(heap, user), Len(heap))

RECURSIVE MinHeap_heapifyDown(_, _)
MinHeap_heapifyDown(heap, index) ==
  LET leftChildIndex == getLeftChildIndex(index)
      rightChildIndex == getRightChildIndex(index)
      size == Len(heap)
      s1 == IF leftChildIndex < size
               /\ heap[leftChildIndex + 1].postCount < heap[index + 1].postCount
              THEN leftChildIndex ELSE index
      smallest == IF rightChildIndex < size
                     /\ heap[rightChildIndex + 1].postCount < heap[s1 + 1].postCount
                    THEN rightChildIndex ELSE s1
  IN IF smallest # index
       THEN MinHeap_heapifyDown(swap(heap, index, smallest), smallest)
       ELSE heap

\* extractMin: the element returned and the heap left behind.
MinHeap_extractMin(heap) ==
  IF Len(heap) = 0 THEN [min |-> Null, heap |-> heap]
  ELSE LET last == heap[Len(heap)]
           popped == SubSeq(heap, 1, Len(heap) - 1)
       IN [min |-> heap[1],
           heap |-> IF Len(popped) > 0
                      THEN MinHeap_heapifyDown([popped EXCEPT ![1] = last], 0)
                      ELSE popped]

\* ---------------------------------------------------------------- MaxHeap
\* key names the keyFunction the heap was constructed with.

keyFunction(key, item) == IF key = "id" THEN item.id ELSE item.commentCount

MaxHeap_peek(heap) == IF Len(heap) > 0 THEN heap[1] ELSE Null

RECURSIVE MaxHeap_heapifyUp(_, _, _)
MaxHeap_heapifyUp(key, heap, index) ==
  LET parentIndex == getParentIndex(index) IN
  IF index > 0
     /\ keyFunction(key, heap[parentIndex + 1]) < keyFunction(key, heap[index + 1])
    THEN MaxHeap_heapifyUp(key, swap(heap, index, parentIndex), parentIndex)
    ELSE heap

MaxHeap_insert(key, heap, item) ==
  MaxHeap_heapifyUp(key, Append(heap, item), Len(heap))

RECURSIVE MaxHeap_heapifyDown(_, _, _)
MaxHeap_heapifyDown(key, heap, index) ==
  LET leftChildIndex == getLeftChildIndex(index)
      rightChildIndex == getRightChildIndex(index)
      size == Len(heap)
      l1 == IF leftChildIndex < size
               /\ keyFunction(key, heap[leftChildIndex + 1])
                    > keyFunction(key, heap[index + 1])
              THEN leftChildIndex ELSE index
      largest == IF rightChildIndex < size
                    /\ keyFunction(key, heap[rightChildIndex + 1])
                         > keyFunction(key, heap[l1 + 1])
                   THEN rightChildIndex ELSE l1
  IN IF largest # index
       THEN MaxHeap_heapifyDown(key, swap(heap, index, largest), largest)
       ELSE heap

\* extractMax: the element returned and the heap left behind.
MaxHeap_extractMax(key, heap) ==
  IF Len(heap) = 0 THEN [max |-> Null, heap |-> heap]
  ELSE LET last == heap[Len(heap)]
           popped == SubSeq(heap, 1, Len(heap) - 1)
       IN [max |-> heap[1],
           heap |-> IF Len(popped) > 0
                      THEN MaxHeap_heapifyDown(key, [popped EXCEPT ![1] = last], 0)
                      ELSE popped]

\* ------------------------------------------------------ selection loops

\* An insert step that evicts as soon as the heap holds TopK elements.
TopUsers_insertStep_EvictAtK(heap, user) ==
  LET h == MinHeap_insert(heap, user)
  IN IF Len(h) >= TopK THEN MinHeap_extractMin(h).heap ELSE h

\* One iteration of the forEach of getTopUsers / updateUsersCache:
\* insert, then evict the minimum when more than 5 are held.
TopUsers_insertStep(heap, user) ==
  LET h == MinHeap_insert(heap, user)
  IN IF Len(h) > TopK THEN MinHeap_extractMin(h).heap ELSE h

\* One iteration of the drain loop: topUsers.unshift(heap.extractMin()).
TopUsers_drainStep(heap, topUsers) ==
  LET r == MinHeap_extractMin(heap)
  IN [heap |-> r.heap, topUsers |-> <<r.min>> \o topUsers]

RECURSIVE TopUsers_insertAll(_, _, _)
TopUsers_insertAll(heap, userWithPosts, i) ==
  IF i > Len(userWithPosts) THEN heap
  ELSE TopUsers_insertAll(TopUsers_insertStep(heap, userWithPosts[i]), userWithPosts, i + 1)

RECURSIVE TopUsers_drainAll(_, _)
TopUsers_drainAll(heap, topUsers) ==
  IF Len(heap) > 0
    THEN LET r == TopUsers_drainStep(heap, topUsers)
         IN TopUsers_drainAll(r.heap, r.topUsers)
    ELSE topUsers

\* The selection of getTopUsers / updateUsersCache on a list of
\* {id, name, postCount}.
selectTopUsers(userWithPosts) ==
  TopUsers_drainAll(TopUsers_insertAll(<<>>, userWithPosts, 1), <<>>)

RECURSIVE MaxHeap_insertAll(_, _, _, _)
MaxHeap_insertAll(key, heap, items, i) ==
  IF i > Len(items) THEN heap
  ELSE MaxHeap_insertAll(key, MaxHeap_insert(key, heap, items[i]), items, i + 1)

\* An extraction count that takes one element too few.
Latest_extractCount_OneShort(heap) == Min(TopK - 1, Len(heap))

\* extractCount = Math.min(5, maxHeap.size())
Latest_extractCount(heap) == Min(TopK, Len(heap))

RECURSIVE Latest_extractAll(_, _, _)
Latest_extractAll(heap, latestPosts, count) ==
  IF Len(latestPosts) < count
    THEN LET r == MaxHeap_extractMax("id", heap)
         IN Latest_extractAll(r.heap, Append(latestPosts, r.max), count)
    ELSE latestPosts

\* The selection of getLatestPosts / updatePostsCache on the aggregated posts.
selectLatestPosts(allPosts) ==
  LET heap == MaxHeap_insertAll("id", <<>>, allPosts, 1)
  IN Latest_extractAll(heap, <<>>, Latest_extractCount(heap))

\* A loop condition that stops after the first extraction.
Popular_continue_FirstOnly(heap, mostCommentedPosts, maxComments) ==
  Len(heap) > 0 /\ MaxHeap_peek(heap).commentCount = maxComments
  /\ Len(mostCommentedPosts) = 0

\* while (commentHeap.size() > 0 && commentHeap.peek().commentCount === maxComments)
Popular_continue(heap, mostCommentedPosts, maxComments) ==
  Len(heap) > 0 /\ MaxHeap_peek(heap).commentCount = maxComments

RECURSIVE Popular_extractAll(_, _, _)
Popular_extractAll(heap, mostCommentedPosts, maxComments) ==
  IF Popular_continue(heap, mostCommentedPosts, maxComments)
    THEN LET r == MaxHeap_extractMax("commentCount", heap)
         IN Popular_extractAll(r.heap, Append(mostCommentedPosts, r.max), maxComments)
    ELSE mostCommentedPosts

\* Array.prototype.sort with (a, b) => b.id - a.id: a stable sort, descending
\* by id.  sortInsert puts x behind every element whose id is >= x.id.
RECURSIVE sortInsert(_, _)
sortInsert(sorted, x) ==
  IF Len(sorted) = 0 THEN <<x>>
  ELSE IF sorted[1].id - x.id >= 0
         THEN <<sorted[1]>> \o sortInsert(Tail(sorted), x)
         ELSE <<x>> \o sorted

RECURSIVE sortByIdDesc(_)
sortByIdDesc(posts) ==
  IF Len(posts) = 0 THEN <<>>
  ELSE sortInsert(sortByIdDesc(SubSeq(posts, 1, Len(posts) - 1)), posts[Len(posts)])

\* The selection of getPopularPosts / updatePostsCache on the posts with
\* their commentCount; the empty list gives the empty view.
selectPopularPosts(postsWithComments) ==
  LET heap == MaxHeap_insertAll("commentCount", <<>>, postsWithComments, 1)
  IN IF Len(heap) = 0 THEN <<>>
     ELSE sortByIdDesc(Popular_extractAll(heap, <<>>, MaxHeap_peek(heap).commentCount))

\* ------------------------------------------------- SpecSel: the inputs

\* The posts of the spec's fixed-count example: identifiers 1..8.
LatestExample == [i \in 1..8 |-> [id |-> i]]

\* The comment counts drawn, and the spec's tie-complete example.
CommentChoices == {2, 3, 5}

PopularExample ==
  [i \in 1..5 |-> [id |-> i, commentCount |-> <<3, 5, 5, 2, 5>>[i]]]

SelKey == IF selMode = "latest" THEN "id" ELSE "commentCount"

\* ------------------------------------------------ SpecSel: the actions

\* A selection starts on an empty list that the fetch loop fills, or on one
\* of the spec's two worked examples.
SelInit ==
  /\ selMode \in {"users", "latest", "popular"}
  /\ \/ selInput = <<>> /\ selPc = "collect"
     \/ selMode = "latest" /\ selInput = LatestExample /\ selPc = "insert"
     \/ selMode = "popular" /\ selInput = PopularExample /\ selPc = "insert"
  /\ selIdx = 1
  /\ selHeap = <<>>
  /\ selAux = 0
  /\ selOut = <<>>

\* getTopUsers, one iteration of for (const [id, name] of Object.entries(users)):
\* the next user of the listing with the length of its fetched posts.
SelFetchUser ==
  /\ selMode = "users" /\ selPc = "collect" /\ Len(selInput) < MaxUsers
  /\ \E c \in 0..MaxPostCount :
       selInput' = Append(selInput, [id |-> Len(selInput) + 1, postCount |-> c])
  /\ UNCHANGED <<selMode, selIdx, selHeap, selAux, selOut, selPc>>
  /\ SelFrame

\* fetchAllPosts, one more post in allPosts: an identifier not seen yet and,
\* for the popular ranking, the length of its fetched comments.
SelFetchPost ==
  /\ selMode \in {"latest", "popular"} /\ selPc = "collect"
  /\ Len(selInput) < (IF selMode = "latest" THEN MaxPosts ELSE MaxPopular)
  /\ \E id \in 1..(IF selMode = "latest" THEN MaxPosts ELSE MaxPopular) :
       /\ \A i \in 1..Len(selInput) : selInput[i].id # id
       /\ IF selMode = "latest"
            THEN selInput' = Append(selInput, [id |-> id])
            ELSE \E c \in CommentChoices :
                   selInput' = Append(selInput, [id |-> id, commentCount |-> c])
  /\ UNCHANGED <<selMode, selIdx, selHeap, selAux, selOut, selPc>>
  /\ SelFrame

\* The fetch loop ends; the selection starts on the list collected.
SelStart ==
  /\ selPc = "collect"
  /\ selPc' = "insert"
  /\ UNCHANGED <<selMode, selInput, selIdx, selHeap, selAux, selOut>>
  /\ SelFrame

\* getTopUsers, one forEach iteration: heap.insert(user), evict above 5.
SelInsertUser ==
  /\ selMode = "users" /\ selPc = "insert" /\ selIdx <= Len(selInput)
  /\ selHeap' = TopUsers_insertStep(selHeap, selInput[selIdx])
  /\ selIdx' = selIdx + 1
  /\ UNCHANGED <<selMode, selInput, selAux, selOut, selPc>>
  /\ SelFrame

\* getLatestPosts / getPopularPosts, one iteration of the insert loop.
SelInsertPost ==
  /\ selMode \in {"latest", "popular"} /\ selPc = "insert" /\ selIdx <= Len(selInput)
  /\ selHeap' = MaxHeap_insert(SelKey, selHeap, selInput[selIdx])
  /\ selIdx' = selIdx + 1
  /\ UNCHANGED <<selMode, selInput, selAux, selOut, selPc>>
  /\ SelFrame

\* The insert loop ends.  latest: extractCount is fixed; popular: an empty
\* heap returns [] at once, otherwise maxComments is read from peek().
SelEndInsert ==
  /\ selPc = "insert" /\ selIdx > Len(selInput)
  /\ selAux' = CASE selMode = "users" -> 0
                 [] selMode = "latest" -> Latest_extractCount(selHeap)
                 [] selMode = "popular" ->
                      IF Len(selHeap) = 0 THEN 0 ELSE MaxHeap_peek(selHeap).commentCount
  /\ selPc' = IF selMode = "popular" /\ Len(selHeap) = 0 THEN "done" ELSE "extract"
  /\ UNCHANGED <<selMode, selInput, selIdx, selHeap, selOut>>
  /\ SelFrame

\* getTopUsers, one iteration of while (heap.size() > 0).
SelDrainUser ==
  /\ selMode = "users" /\ selPc = "extract" /\ Len(selHeap) > 0
  /\ LET r == TopUsers_drainStep(selHeap, selOut)
     IN selHeap' = r.heap /\ selOut' = r.topUsers
  /\ UNCHANGED <<selMode, selInput, selIdx, selAux, selPc>>
  /\ SelFrame

\* getLatestPosts, one iteration of for (i < extractCount).
SelExtractLatest ==
  /\ selMode = "latest" /\ selPc = "extract" /\ Len(selOut) < selAux
  /\ LET r == MaxHeap_extractMax("id", selHeap)
     IN selHeap' = r.heap /\ selOut' = Append(selOut, r.max)
  /\ UNCHANGED <<selMode, selInput, selIdx, selAux, selPc>>
  /\ SelFrame

\* getPopularPosts, one iteration of the tie-complete extraction.
SelExtractPopular ==
  /\ selMode = "popular" /\ selPc = "extract"
  /\ Popular_continue(selHeap, selOut, selAux)
  /\ LET r == MaxHeap_extractMax("commentCount", selHeap)
     IN selHeap' = r.heap /\ selOut' = Append(selOut, r.max)
  /\ UNCHANGED <<selMode, selInput, selIdx, selAux, selPc>>
  /\ SelFrame

\* The extraction loop ends; popular sorts its group by id, newest first.
SelFinish ==
  /\ selPc = "extract"
  /\ CASE selMode = "users" -> Len(selHeap) = 0
       [] selMode = "latest" -> Len(selOut) >= selAux
       [] selMode = "popular" -> ~Popular_continue(selHeap, selOut, selAux)
  /\ selOut' = IF selMode = "popular" THEN sortByIdDesc(selOut) ELSE selOut
  /\ selPc' = "done"
  /\ UNCHANGED <<selMode, selInput, selIdx, selHeap, selAux>>
  /\ SelFrame

SelNext ==
  \/ SelFetchUser
  \/ SelFetchPost
  \/ SelStart
  \/ SelInsertUser
  \/ SelInsertPost
  \/ SelEndInsert
  \/ SelDrainUser
  \/ SelExtractLatest
  \/ SelExtractPopular
  \/ SelFinish

vars == <<selVars, authVars, serveVars>>

\* The selection code has not been entered.
SelIdle ==
  /\ selMode = "users" /\ selInput = <<>> /\ selIdx = 1 /\ selHeap = <<>>
  /\ selAux = 0 /\ selOut = <<>> /\ selPc = "idle"

\* The token provider as the module is loaded: no token, nothing pending.
AuthIdle ==
  /\ now = 0 /\ authToken = [isNull |-> TRUE] /\ timers = {} /\ inflight = {}
  /\ issued = 0 /\ lastReturn = [kind |-> "none"] /\ pendingFailure = "none"
  /\ lastCall = [kind |-> "none"]
  /\ scheduled = <<>>

\* No request and no refresh has run; nothing is cached.
ServeIdle ==
  /\ client = "none" /\ upUsers = <<>> /\ upPosts = <<>> /\ proc = <<>> /\ apiCache = <<>>
  /\ ttlStore = <<>> /\ effect = [kind |-> "none"] /\ lastWrite = <<>>

SelSpecInit == SelInit /\ AuthIdle /\ ServeIdle

SpecSel == SelSpecInit /\ [][SelNext]_vars

\* ------------------------------------------------- SpecSel: the claims

\* The brute-force reference: a full insertion sort, descending by postCount.
RECURSIVE RefInsertByCount(_, _)
RefInsertByCount(sorted, x) ==
  IF Len(sorted) = 0 THEN <<x>>
  ELSE IF sorted[1].postCount >= x.postCount
         THEN <<sorted[1]>> \o RefInsertByCount(Tail(sorted), x)
         ELSE <<x>> \o sorted

RECURSIVE RefSortByCount(_)
RefSortByCount(users) ==
  IF Len(users) = 0 THEN <<>>
  ELSE RefInsertByCount(RefSortByCount(Tail(users)), Head(users))

RefTopUsers(users) == SubSeq(RefSortByCount(users), 1, Min(TopK, Len(users)))

\* How many elements of s carry the post count v.
CountOf(s, v) == Cardinality({i \in 1..Len(s) : s[i].postCount = v})

IdsOf(s) == [i \in 1..Len(s) |-> s[i].id]

\* C1: the top-users selection yields min(5, n) users, sorted non-increasing
\* by postCount, whose multiset of postCounts is that of the 5 largest of a
\* brute-force full sort, for every list of users (ties included).
C1_TopUsersMatchBruteForce ==
  (selMode = "users" /\ selPc = "done") =>
    /\ Len(selOut) = Min(5, Len(selInput))
    /\ \A i \in 1..(Len(selOut) - 1) : selOut[i].postCount >= selOut[i + 1].postCount
    /\ \A v \in {selInput[i].postCount : i \in 1..Len(selInput)} :
         CountOf(selOut, v) = CountOf(RefTopUsers(selInput), v)

\* A finished selection over more than 5 users with a tie at the cut: the
\* 5th and the evicted 6th largest post counts are equal.
C1_Witness ==
  /\ selMode = "users" /\ selPc = "done"
  /\ Len(selInput) > 5 /\ Len(selOut) = 5
  /\ RefSortByCount(selInput)[5].postCount = RefSortByCount(selInput)[6].postCount
  /\ selOut[1].postCount > selOut[5].postCount

MaxCommentCount(posts) ==
  CHOOSE m \in {posts[i].commentCount : i \in 1..Len(posts)} :
    \A i \in 1..Len(posts) : posts[i].commentCount <= m

\* C2: popular extraction returns exactly the posts whose commentCount is
\* the overall maximum, each once, ordered by identifier descending; the
\* counts [3,5,5,2,5] of ids [1,2,3,4,5] give ids [5,3,2].
C2_PopularIsAllMaxima ==
  (selMode = "popular" /\ selPc = "done" /\ Len(selInput) > 0) =>
    LET tied == {selInput[i] : i \in {j \in 1..Len(selInput) :
                   selInput[j].commentCount = MaxCommentCount(selInput)}}
    IN /\ {selOut[i] : i \in 1..Len(selOut)} = tied
       /\ Len(selOut) = Cardinality(tied)
       /\ \A i \in 1..(Len(selOut) - 1) : selOut[i].id > selOut[i + 1].id
       /\ (selInput = PopularExample => IdsOf(selOut) = <<5, 3, 2>>)

\* The spec's example has run to its result, three tied posts.
C2_Witness ==
  /\ selMode = "popular" /\ selPc = "done"
  /\ selInput = PopularExample
  /\ Len(selOut) = 3

\* C3: latest extraction returns min(5, n) posts, those with the highest
\* identifiers, in strictly descending identifier order; ids 1..8 give
\* [8,7,6,5,4].
C3_LatestIsTopFiveIds ==
  (selMode = "latest" /\ selPc = "done") =>
    /\ Len(selOut) = Min(5, Len(selInput))
    /\ \A i \in 1..(Len(selOut) - 1) : selOut[i].id > selOut[i + 1].id
    /\ \A i \in 1..Len(selOut) : \E j \in 1..Len(selInput) : selInput[j] = selOut[i]
    /\ \A j \in 1..Len(selInput) :
         (\A i \in 1..Len(selOut) : selOut[i] # selInput[j]) =>
           \A i \in 1..Len(selOut) : selInput[j].id < selOut[i].id
    /\ (selInput = LatestExample => IdsOf(selOut) = <<8, 7, 6, 5, 4>>)

\* The spec's example has run to its result, three posts left out.
C3_Witness ==
  /\ selMode = "latest" /\ selPc = "done"
  /\ selInput = LatestExample
  /\ Len(selOut) = 5 /\ Len(selHeap) = 3

\* The entities a heap retains.
Retained(heap) == {heap[i] : i \in 1..Len(heap)}

\* getTopUsers is about to insert a user while 5 are retained.
InsertAtCapacity ==
  /\ selMode = "users" /\ selPc = "insert" /\ selIdx <= Len(selInput)
  /\ Len(selHeap) = TopK

\* C18: with 5 entities retained, a new entity whose postCount is not
\* strictly greater than the current minimum, equal included, is discarded
\* and the retained set is unchanged.
C18_NotGreaterIsDiscarded ==
  [][(InsertAtCapacity /\ selIdx' = selIdx + 1
      /\ selInput[selIdx].postCount <= selHeap[1].postCount) =>
       Retained(selHeap') = Retained(selHeap)]_vars

\* The sixth user, whose postCount equals the minimum of the first five, has
\* been inserted: it is retained and the first user, which held that minimum,
\* is not.
C18_Witness ==
  /\ selMode = "users" /\ selPc = "insert" /\ selIdx = TopK + 2
  /\ \A i \in 1..TopK : selInput[i].postCount >= selInput[TopK + 1].postCount
  /\ \E i \in 1..TopK : selInput[i].postCount = selInput[TopK + 1].postCount
  /\ selInput[TopK + 1] \in Retained(selHeap)
  /\ Cardinality(Retained(selHeap)) = TopK
  /\ \E i \in 1..TopK : selInput[i] \notin Retained(selHeap)

\* ------------------------------------------------ the token provider

\* (expires_in - 300) * 1000: the renewal runs 300 s before the expiry.
SafetyMargin == 300

\* The expires_in values POST /auth answers with, in seconds.
ExpiresInChoices == {360, 420}

Callers == 1..MaxCallers

\* Who awaits an exchange: the server's startup authenticate(), the
\* getAuthToken() of initScheduledTasks, a fetch's getAuthToken(), or the
\* renewal job that exchange n scheduled.
Origin(kind, n) == [kind |-> kind, n |-> n]

\* What initScheduledTasks registers once its getAuthToken() has resolved:
\* the two recurring jobs, then the timeout of the initial update.
RefreshJobs == <<"updatePostsCache", "updateUsersCache", "initialUpdate">>

\* A registration made whenever an exchange succeeds.
initScheduledTasks_onResolved_AnyExchange(o, jobs) == jobs \o RefreshJobs

\* this.getAuthToken().then(() => { scheduleJob, scheduleJob, setTimeout }):
\* the callback of the one call made at module load, not of other exchanges.
initScheduledTasks_onResolved(o, jobs) ==
  IF o.kind = "init" THEN jobs \o RefreshJobs ELSE jobs

\* A getAuthToken that exchanges on every call.
getAuthToken_mustAuthenticate_Always(token) == TRUE

\* getAuthToken: if (!token) token = await this.authenticate()
getAuthToken_mustAuthenticate(token) == token = Null

\* Both modules have been evaluated: initScheduledTasks() found no token and
\* the server's startup block called authenticate(); both POST /auth requests
\* are awaiting their answer.
AuthInit ==
  /\ now = 0
  /\ authToken = Null
  /\ timers = {}
  /\ inflight = {Origin("init", 0), Origin("startup", 0)}
  /\ issued = 0
  /\ lastReturn = [kind |-> "none"]
  /\ pendingFailure = "none"
  /\ lastCall = [kind |-> "none"]
  /\ scheduled = <<>>

\* getAuthToken() called by a fetch: the stored token, or an exchange.
GetAuthToken(c) ==
  /\ Origin("caller", c) \notin inflight
  /\ lastCall' = [kind |-> "call", caller |-> c, afterFailure |-> pendingFailure,
                  stored |-> authToken,
                  exchanged |-> getAuthToken_mustAuthenticate(authToken),
                  returned |-> IF getAuthToken_mustAuthenticate(authToken)
                                 THEN Null ELSE authToken]
  /\ pendingFailure' = "none"
  /\ IF getAuthToken_mustAuthenticate(authToken)
       THEN /\ inflight' = inflight \cup {Origin("caller", c)}
            /\ UNCHANGED lastReturn
       ELSE /\ lastReturn' = [kind |-> "token", to |-> Origin("caller", c),
                              token |-> authToken, at |-> now]
            /\ UNCHANGED inflight
  /\ UNCHANGED <<now, authToken, timers, issued, scheduled>>
  /\ AuthFrame

\* A failed exchange that schedules a retry one step later.
AuthenticateReject_Retry(o) ==
  /\ o \in inflight
  /\ inflight' = inflight \ {o}
  /\ lastReturn' = [kind |-> "error", to |-> o, token |-> Null, at |-> now]
  /\ pendingFailure' = o.kind
  /\ timers' = timers \cup {[n |-> o.n, at |-> now + TimeStep]}
  /\ UNCHANGED <<now, authToken, issued, lastCall, scheduled>>
  /\ AuthFrame

\* authenticate(), POST /auth answered: the token is stored, the renewal is
\* scheduled at now + (expires_in - 300) s, the token is returned.
AuthenticateResolve(o, expires_in) ==
  /\ o \in inflight
  /\ issued < MaxExchanges
  /\ LET token == [id |-> issued + 1, expiresAt |-> now + expires_in]
     IN /\ authToken' = token
        /\ timers' = timers \cup
             {[n |-> issued + 1, at |-> now + (expires_in - SafetyMargin)]}
        /\ lastReturn' = [kind |-> "token", to |-> o, token |-> token, at |-> now]
  /\ issued' = issued + 1
  /\ inflight' = inflight \ {o}
  /\ scheduled' = initScheduledTasks_onResolved(o, scheduled)
  /\ UNCHANGED <<now, pendingFailure, lastCall>>
  /\ AuthFrame

\* authenticate(), POST /auth failed: the error is logged and rethrown.
AuthenticateReject(o) ==
  /\ o \in inflight
  /\ inflight' = inflight \ {o}
  /\ lastReturn' = [kind |-> "error", to |-> o, token |-> Null, at |-> now]
  /\ pendingFailure' = o.kind
  /\ UNCHANGED <<now, authToken, timers, issued, lastCall, scheduled>>
  /\ AuthFrame

\* A renewal job fires at its date and calls authenticate().
RenewalFires(job) ==
  /\ job \in timers
  /\ job.at <= now
  /\ timers' = timers \ {job}
  /\ inflight' = inflight \cup {Origin("timer", job.n)}
  /\ UNCHANGED <<now, authToken, issued, lastReturn, pendingFailure, lastCall,
               scheduled>>
  /\ AuthFrame

\* The clock advances.  Jobs fire on their date and POST /auth answers within
\* a step: time passes only when no job is due and no exchange is pending.
Tick ==
  /\ now + TimeStep <= MaxTime
  /\ \A job \in timers : job.at > now
  /\ inflight = {}
  /\ now' = now + TimeStep
  /\ UNCHANGED <<authToken, timers, inflight, issued, lastReturn, pendingFailure, lastCall,
               scheduled>>
  /\ AuthFrame

AuthNext ==
  \/ \E c \in Callers : GetAuthToken(c)
  \/ \E o \in inflight, e \in ExpiresInChoices : AuthenticateResolve(o, e)
  \/ \E o \in inflight : AuthenticateReject(o)
  \/ \E job \in timers : RenewalFires(job)
  \/ Tick

AuthSpecInit == AuthInit /\ SelIdle /\ ServeIdle

SpecAuth == AuthSpecInit /\ [][AuthNext]_vars

\* ----------------------------------------------- SpecAuth: the claims

\* C8: the provider holds at most one token and a held token is valid:
\* getAuthToken never returns a token whose expiry instant has passed.
C8_TokenHeldOrReturnedIsValid ==
  /\ (authToken # Null => now <= authToken.expiresAt)
  /\ (lastReturn.kind = "token" => lastReturn.at <= lastReturn.token.expiresAt)

\* C9: a failed exchange leaves the stored token and the scheduled renewals
\* as they were, starts no new exchange, and its error reaches the caller.
C9_FailedExchangeChangesNothing ==
  [][\A o \in inflight :
       (inflight' = inflight \ {o} /\ issued' = issued) =>
         /\ authToken' = authToken
         /\ timers' = timers
         /\ lastReturn'.kind = "error" /\ lastReturn'.to = o]_vars

\* A renewal has failed while a token was stored: the token is still there,
\* no job is pending and no exchange is in flight.
C9_Witness ==
  /\ lastReturn.kind = "error" /\ lastReturn.to.kind = "timer"
  /\ authToken # Null /\ timers = {} /\ inflight = {}

\* C10 as stated: after a failed exchange the next getAuthToken call starts
\* a fresh exchange, whether or not a token is stored.
C10_NextCallAlwaysExchanges ==
  (lastCall.kind = "call" /\ lastCall.afterFailure # "none") => lastCall.exchanged

\* C10 as amended: after a failed exchange the next getAuthToken call starts
\* a fresh exchange exactly when no token is stored; with a token stored it
\* returns that token and starts none.
C10_NextCallExchangesIffNoToken ==
  (lastCall.kind = "call" /\ lastCall.afterFailure # "none") =>
    /\ lastCall.exchanged <=> lastCall.stored = Null
    /\ ~lastCall.exchanged => lastCall.returned = lastCall.stored

\* The first call after a failed renewal, a token from an earlier exchange
\* being stored: the call returned it and no exchange is in flight.
C10_Witness ==
  /\ lastCall.kind = "call" /\ lastCall.afterFailure = "timer"
  /\ lastCall.stored # Null /\ ~lastCall.exchanged
  /\ lastCall.returned = lastCall.stored
  /\ inflight = {}

\* C20: at most one renewal job is pending at any time, whatever the
\* interleaving of the startup authenticate(), the getAuthToken() of
\* initScheduledTasks, getAuthToken calls made with no token stored, and the
\* renewal jobs firing: the stored token has one renewal chain.
C20_AtMostOneRenewalPending ==
  Cardinality(timers) <= 1

\* The exchanges of the startup authenticate() and of initScheduledTasks have
\* both been answered: two renewal jobs are pending, one of them for a token
\* that is no longer the stored one.
C20_Witness ==
  /\ authToken # Null /\ inflight = {}
  /\ Cardinality(timers) = 2
  /\ \E job \in timers : job.n # authToken.id
  /\ \E job \in timers : job.n = authToken.id

\* The getAuthToken() of initScheduledTasks is awaiting its exchange.
InitPending == Origin("init", 0) \in inflight

\* C21: the refresh jobs and the initial refresh are registered exactly once,
\* and only when the getAuthToken() of initScheduledTasks has resolved; if
\* that exchange fails nothing is registered then, nor ever after, whatever
\* authentication succeeds later.
C21_RefreshJobsRegisteredOnceAfterInit ==
  /\ [](/\ scheduled \in {<<>>, RefreshJobs}
        /\ InitPending => scheduled = <<>>)
  /\ [][(InitPending /\ ~InitPending') =>
          IF lastReturn'.kind = "token"
            THEN lastReturn'.to = Origin("init", 0) /\ scheduled' = RefreshJobs
            ELSE scheduled' = <<>>]_vars
  /\ [][~InitPending => scheduled' = scheduled /\ ~InitPending']_vars

\* The exchange of initScheduledTasks failed and nothing is registered,
\* although a getAuthToken called later by a fetch has just obtained a token.
C21_Witness ==
  /\ ~InitPending /\ scheduled = <<>>
  /\ authToken # Null
  /\ lastReturn.kind = "token" /\ lastReturn.to.kind = "caller"
  /\ lastReturn.token = authToken

\* The jobs are registered once although three exchanges have succeeded.
C21_RegisteredWitness ==
  /\ scheduled = RefreshJobs /\ issued >= 3 /\ inflight = {}

\* ------------------------------------------------------ the collaborator

\* users[userId]: the display name the listing gives a user.
NameOf(userId) == <<"name", userId>>

\* GET /users/:id/posts answered: the user's posts, oldest first.
UpstreamPostsOf(userId) ==
  SelectSeq([i \in 1..Len(upPosts) |-> [id |-> i, userId |-> upPosts[i].userId]],
            LAMBDA post : post.userId = userId)

\* GET /posts/:id/comments answered: comments.length.
UpstreamCommentCount(postId) == upPosts[postId].comments

RECURSIVE SumComments(_)
SumComments(n) == IF n = 0 THEN 0 ELSE upPosts[n].comments + SumComments(n - 1)

\* The posts and comments the collaborator has received so far.
UpstreamChanges == Len(upPosts) + SumComments(Len(upPosts))

\* { id, name, postCount: posts.length }
UserWithPosts(id, posts) ==
  [id |-> id, name |-> NameOf(id), postCount |-> Len(posts)]

\* userPosts.map(post => ({ ...post, username: users[userId] }))
TaggedPosts(id, posts) ==
  [k \in 1..Len(posts) |->
     [id |-> posts[k].id, userId |-> posts[k].userId, username |-> NameOf(id)]]

\* { ...post, commentCount: comments.length }
PostWithComments(post, count) ==
  [id |-> post.id, userId |-> post.userId, username |-> post.username,
   commentCount |-> count]

\* ----------------------------------------------------- the cache layers

Views == {"users", "latest", "popular"}

Readers == {"getUsers", "getLatest", "getPopular"}

Jobs == {"jobUsers", "jobPosts"}

Procs == Readers \cup Jobs

\* req.query.type of a request without the parameter (undefined).
NoType == "(undefined)"

\* The values of ?type= tried: none, empty, the two served, another.
TypeValues == {NoType, "", "latest", "popular", "recent"}

\* In a response: the request arrived in an earlier step than the answer.
Earlier == "(earlier)"

\* A handler that takes the parameter as sent.
postsType_NoDefault(q) == q

\* const type = req.query.type || 'latest': undefined and '' are falsy.
postsType(q) == IF q = NoType \/ q = "" THEN "latest" ELSE q

\* The type the clients of Spec send: the one that names the view.
SentType(p) ==
  CASE p = "getUsers" -> NoType
    [] p = "getLatest" -> "latest"
    [] p = "getPopular" -> "popular"

\* The branch GET /posts takes: a view function, or the 400 answer.
postsRoute(q) ==
  IF postsType(q) = "latest" THEN "getLatest"
  ELSE IF postsType(q) = "popular" THEN "getPopular"
  ELSE "invalid"

\* The view a handler serves: GET /users, GET /posts?type=latest|popular.
ReadView(p) ==
  CASE p = "getUsers" -> "users"
    [] p = "getLatest" -> "latest"
    [] p = "getPopular" -> "popular"

\* The views an operation computes and may store.
Covered(p) ==
  CASE p \in Readers -> {ReadView(p)}
    [] p = "jobUsers" -> {"users"}
    [] p = "jobPosts" -> {"latest", "popular"}

\* A NodeCache key without a value (get returns undefined), and with one.
Absent == [present |-> FALSE, value |-> <<>>]

Present(v) == [present |-> TRUE, value |-> v]

\* A set that keeps the value a key already holds.
NodeCache_set_KeepExisting(entry, value) ==
  IF entry.present THEN entry ELSE Present(value)

\* cache.set(key, value): the key holds value, whatever it held.
NodeCache_set(entry, value) == Present(value)

\* A handler that never finds its view in the TTL store.
ttlCacheHit_Never(entry) == FALSE

\* The handlers' if (cachedUsers) / if (cachedLatestPosts) / if (cachedPopularPosts)
\* on cacheService: a stored array, [] included, is truthy.
ttlCacheHit(entry) == entry.present

\* A view function that never finds its view cached.
apiCacheHit_Never(entry) == FALSE

\* getTopUsers / getLatestPosts / getPopularPosts: if (cachedUsers) return cachedUsers.
apiCacheHit(entry) == entry.present

\* A refresh that leaves the entry alone when the listing fails.
updateUsersCache_onError_KeepPrior(entry) == entry

\* updateUsersCache, catch: userCache.set('topUsers', []).
updateUsersCache_onError(entry) == NodeCache_set(entry, <<>>)

\* A refresh that stores nothing when there is no user.
updateUsersCache_noUsers_Skip(entry) == entry

\* updateUsersCache, 'No user data to cache': userCache.set('topUsers', []).
updateUsersCache_noUsers(entry) == NodeCache_set(entry, <<>>)

\* A refresh that stores nothing when there is no post.
updatePostsCache_noPosts_Skip(entry) == entry

\* updatePostsCache, 'No posts to cache': latestPostsCache.set('latestPosts', [])
\* and popularPostsCache.set('popularPosts', []).
updatePostsCache_noPosts(entry) == NodeCache_set(entry, <<>>)

\* ------------------------------------------------------- history records

\* The latest store for a view, in either layer: who stored what where.
NoWrite == [by |-> "none", layer |-> "none", value |-> <<>>]

WriteBy(p, layer, value) == [by |-> p, layer |-> layer, value |-> value]

\* What the latest step did, seen from outside: nothing, a response sent, or
\* a refresh storing or ending.
NoEffect == [kind |-> "none"]

\* An operation that is not running.  met collects the views another
\* operation stored while this one was running, failed the users whose posts
\* it could not fetch.
IdleProc ==
  [pc |-> "idle", users |-> <<>>, i |-> 0, acc |-> <<>>, j |-> 0,
   withComments |-> <<>>, prior |-> NoWrite, ttl0 |-> Absent, api0 |-> Absent,
   met |-> {}, failed |-> {}]

InFlight == {q \in Procs : proc[q].pc # "idle"}

\* What each view would be if computed now with every fetch answered.
RECURSIVE FreshUserWithPosts(_)
FreshUserWithPosts(n) ==
  IF n = 0 THEN <<>>
  ELSE Append(FreshUserWithPosts(n - 1),
              UserWithPosts(upUsers[n], UpstreamPostsOf(upUsers[n])))

RECURSIVE FreshAllPosts(_)
FreshAllPosts(n) ==
  IF n = 0 THEN <<>>
  ELSE FreshAllPosts(n - 1) \o TaggedPosts(upUsers[n], UpstreamPostsOf(upUsers[n]))

FreshView(V) ==
  LET allPosts == FreshAllPosts(Len(upUsers)) IN
  CASE V = "users" -> selectTopUsers(FreshUserWithPosts(Len(upUsers)))
    [] V = "latest" -> selectLatestPosts(allPosts)
    [] V = "popular" ->
         selectPopularPosts([k \in 1..Len(allPosts) |->
           PostWithComments(allPosts[k], UpstreamCommentCount(allPosts[k].id))])

ServeInit ==
  /\ client \in Readers
  /\ upUsers \in {[i \in 1..n |-> i] : n \in 0..MaxUpUsers}
  /\ upPosts = <<>>
  /\ proc = [p \in Procs |-> IdleProc]
  /\ apiCache = [V \in Views |-> Absent]
  /\ ttlStore = [V \in Views |-> Absent]
  /\ effect = NoEffect
  /\ lastWrite = [V \in Views |-> NoWrite]

\* ------------------------------------------------- how an operation acts

\* p becomes next; every other running operation notes the views p stored.
Turn(p, views, next) ==
  [q \in Procs |->
     IF q = p THEN next
     ELSE IF proc[q].pc # "idle"
       THEN [proc[q] EXCEPT !.met = @ \cup (views \cap Covered(q))]
       ELSE proc[q]]

\* The views among those stored that replaced what the collaborator holds now
\* by something else.
StaleStores(stored) ==
  {W \in DOMAIN stored :
     apiCache[W] = Present(FreshView(W)) /\ stored[W] # FreshView(W)}

\* The views among those stored that held something else than [] before.
ReplacedStores(stored) ==
  {W \in DOMAIN stored :
     apiCache[W].present /\ apiCache[W].value # <<>> /\ stored[W] = <<>>}

\* The response of a handler, and the stores in apiManager that came with it:
\* raced are the views another operation stored meanwhile.
ReadEffect(p, query, source, outcome, status, body, ttl0, api0, prior, met, stored, failed) ==
  [kind |-> "read", p |-> p, query |-> query, view |-> ReadView(p), source |-> source,
   outcome |-> outcome, status |-> status, body |-> body, ttl0 |-> ttl0,
   api0 |-> api0, prior |-> prior, done |-> TRUE, stored |-> stored,
   raced |-> DOMAIN stored \cap met, stale |-> StaleStores(stored),
   replaced |-> ReplacedStores(stored), failed |-> failed]

\* A store by a refresh, which ends with it if done.
JobEffect(p, done, outcome, stored, failed) ==
  [kind |-> "refresh", p |-> p, done |-> done, outcome |-> outcome,
   stored |-> stored, raced |-> DOMAIN stored \cap proc[p].met,
   stale |-> StaleStores(stored), replaced |-> ReplacedStores(stored),
   failed |-> failed,
   same |-> {W \in DOMAIN stored : apiCache[W] = Present(stored[W])}]

\* The handler's tail.  The view function has returned body (or thrown, status
\* 500): apiWrite tells whether it stored body in its own cache; on 200 the
\* handler stores body in cacheService and answers.
ReadDone(p, outcome, status, body, apiWrite, failed) ==
  LET V == ReadView(p)
      stored == IF apiWrite THEN [W \in {V} |-> body] ELSE <<>>
  IN  /\ apiCache' = IF apiWrite
                       THEN [apiCache EXCEPT ![V] = NodeCache_set(@, body)]
                       ELSE apiCache
      /\ ttlStore' = IF status = 200
                       THEN [ttlStore EXCEPT ![V] = NodeCache_set(@, body)]
                       ELSE ttlStore
      /\ lastWrite' =
           IF status = 200
             THEN [lastWrite EXCEPT ![V] =
                     WriteBy(p, IF apiWrite THEN "both" ELSE "ttl", body)]
             ELSE lastWrite
      /\ effect' = ReadEffect(p, Earlier, "fetch", outcome, status, body, proc[p].ttl0,
                              proc[p].api0, proc[p].prior, proc[p].met, stored,
                              failed)
      /\ proc' = Turn(p, DOMAIN stored, IdleProc)

\* A refresh has nothing to rank (listing failed, or no user / no post):
\* every entry it owns is set to [].
JobEmpty(p, outcome, failed) ==
  LET stored == [W \in Covered(p) |-> <<>>] IN
  /\ apiCache' =
       IF p = "jobUsers"
         THEN [apiCache EXCEPT !["users"] =
                 IF outcome = "listingFailed"
                   THEN updateUsersCache_onError(@)
                   ELSE updateUsersCache_noUsers(@)]
         ELSE [apiCache EXCEPT !["latest"] = updatePostsCache_noPosts(@),
                               !["popular"] = updatePostsCache_noPosts(@)]
  /\ lastWrite' = [W \in Views |->
                     IF W \in Covered(p) THEN WriteBy(p, "api", <<>>)
                     ELSE lastWrite[W]]
  /\ effect' = JobEffect(p, TRUE, outcome, stored, failed)
  /\ proc' = Turn(p, Covered(p), IdleProc)
  /\ UNCHANGED ttlStore

\* A refresh stores value under the view V it owns and goes on as next.
JobWrite(p, V, value, next, failed) ==
  /\ apiCache' = [apiCache EXCEPT ![V] = NodeCache_set(@, value)]
  /\ lastWrite' = [lastWrite EXCEPT ![V] = WriteBy(p, "api", value)]
  /\ effect' = JobEffect(p, next.pc = "idle", "ok", [W \in {V} |-> value],
                       failed)
  /\ proc' = Turn(p, {V}, next)
  /\ UNCHANGED ttlStore

\* A step inside an operation: it stores nothing and answers nothing.
Silent(p, next) ==
  /\ proc' = [proc EXCEPT ![p] = next]
  /\ effect' = NoEffect
  /\ UNCHANGED <<apiCache, ttlStore, lastWrite>>

\* The operation ends with no user or no post to rank.
EndEmpty(p, outcome, failed) ==
  CASE p = "getUsers" ->
         IF outcome = "listingFailed"
           THEN ReadDone(p, outcome, 500, <<>>, FALSE, failed)
           ELSE ReadDone(p, outcome, 200, selectTopUsers(<<>>), TRUE, failed)
    [] p = "getLatest" ->
         ReadDone(p, outcome, 200, selectLatestPosts(<<>>), TRUE, failed)
    [] p = "getPopular" -> ReadDone(p, outcome, 200, <<>>, FALSE, failed)
    [] p \in Jobs -> JobEmpty(p, outcome, failed)

\* ------------------------------------------------------------ the steps

\* What the latest step did when the handler found neither cache layer
\* holding its view and called the view function, which starts fetching.
Routed(p, q) ==
  [kind |-> "routed", p |-> p, query |-> q, outcome |-> "started",
   done |-> FALSE, stored |-> <<>>, raced |-> {}, stale |-> {}, replaced |-> {},
   failed |-> {}]

\* GET /users or GET /posts?type=... arrives.  A hit in either layer answers
\* at once; otherwise the view function starts fetching.
ReadStart(p, q) ==
  LET V == ReadView(p)
      t == ttlStore[V]
      a == apiCache[V]
  IN  /\ p = client
      /\ IF p = "getUsers" THEN q = NoType ELSE postsRoute(q) = p
      /\ proc[p].pc = "idle"
      /\ IF ttlCacheHit(t)
           THEN /\ effect' = ReadEffect(p, q, "ttl", "ok", 200, t.value, t, a,
                                        lastWrite[V], {}, <<>>, {})
                /\ UNCHANGED <<proc, apiCache, ttlStore, lastWrite>>
           ELSE IF apiCacheHit(a)
             THEN /\ ttlStore' = [ttlStore EXCEPT ![V] = NodeCache_set(@, a.value)]
                  /\ effect' = ReadEffect(p, q, "api", "ok", 200, a.value, t, a,
                                          lastWrite[V], {}, <<>>, {})
                  /\ lastWrite' = [lastWrite EXCEPT ![V] = WriteBy(p, "ttl", a.value)]
                  /\ UNCHANGED <<proc, apiCache>>
             ELSE /\ proc' = [proc EXCEPT ![p] =
                                [IdleProc EXCEPT !.pc = "fetchUsers",
                                                 !.prior = lastWrite[V],
                                                 !.ttl0 = t, !.api0 = a]]
                  /\ effect' = Routed(p, q)
                  /\ UNCHANGED <<apiCache, ttlStore, lastWrite>>
      /\ UNCHANGED <<client, upUsers, upPosts>>
      /\ ServeFrame

\* What the latest step did when it was the 400 answer of GET /posts.
Rejected(q) ==
  [kind |-> "rejected", p |-> "getPosts", query |-> q, status |-> 400,
   body |-> [error |-> "Invalid type parameter"], outcome |-> "invalidType",
   done |-> TRUE, stored |-> <<>>, raced |-> {}, stale |-> {}, replaced |-> {},
   failed |-> {}]

\* GET /posts arrives with a type that is neither 'latest' nor 'popular':
\* the else branch answers 400 and does nothing else.
RejectPosts(q) ==
  /\ client \in {"getLatest", "getPopular"}
  /\ proc[client].pc = "idle"
  /\ postsRoute(q) = "invalid"
  /\ effect' = Rejected(q)
  /\ UNCHANGED <<client, upUsers, upPosts, proc, apiCache, ttlStore, lastWrite>>
  /\ ServeFrame

\* The scheduler fires updateUsersCache or updatePostsCache.
JobStart(p) ==
  /\ p \in Jobs
  /\ Covered(p) \cap Covered(client) # {}
  /\ proc[p].pc = "idle"
  /\ Silent(p, [IdleProc EXCEPT !.pc = "fetchUsers"])
  /\ UNCHANGED <<client, upUsers, upPosts>>
  /\ ServeFrame

\* GET /users is answered (ok) or fails.
FetchUsers(p, ok) ==
  /\ proc[p].pc = "fetchUsers"
  /\ IF ~ok
       THEN EndEmpty(p, "listingFailed", {})
       ELSE IF Len(upUsers) = 0
         THEN EndEmpty(p, "empty", {})
         ELSE Silent(p, [proc[p] EXCEPT !.pc = "fetchPosts", !.users = upUsers,
                                        !.i = 1])
  /\ UNCHANGED <<client, upUsers, upPosts>>
  /\ ServeFrame

\* A fetchUserPosts whose failure leaves the posts it was after in place.
fetchUserPosts_IgnoreFailure(ok, posts) == posts

\* fetchUserPosts: response.data.posts, and [] when the call fails.
fetchUserPosts(ok, posts) == IF ok THEN posts ELSE <<>>

\* One turn of the loop over the users: GET /users/:id/posts is answered (ok)
\* or fails, and fetchUserPosts turns the failure into [].
FetchUserPosts(p, ok) ==
  LET me == proc[p]
      id == me.users[me.i]
      posts == fetchUserPosts(ok, UpstreamPostsOf(id))
      acc == IF p \in {"getUsers", "jobUsers"}
               THEN Append(me.acc, UserWithPosts(id, posts))
               ELSE me.acc \o TaggedPosts(id, posts)
      failed == IF ok THEN me.failed ELSE me.failed \cup {id}
      comments == [me EXCEPT !.pc = "fetchComments", !.acc = acc, !.j = 1,
                             !.failed = failed]
      topUsers == selectTopUsers(acc)
      latestPosts == selectLatestPosts(acc)
  IN  /\ me.pc = "fetchPosts"
      /\ IF me.i < Len(me.users)
           THEN Silent(p, [me EXCEPT !.acc = acc, !.i = me.i + 1,
                                     !.failed = failed])
           ELSE CASE p = "getUsers" ->
                       ReadDone(p, "ok", 200, topUsers, TRUE, failed)
                  [] p = "jobUsers" ->
                       JobWrite(p, "users", topUsers, IdleProc, failed)
                  [] p = "getLatest" ->
                       ReadDone(p, "ok", 200, latestPosts, TRUE, failed)
                  [] p = "getPopular" ->
                       IF Len(acc) = 0 THEN EndEmpty(p, "empty", failed)
                       ELSE Silent(p, comments)
                  [] p = "jobPosts" ->
                       IF Len(acc) = 0 THEN EndEmpty(p, "empty", failed)
                       ELSE JobWrite(p, "latest", latestPosts, comments, failed)
      /\ UNCHANGED <<client, upUsers, upPosts>>
      /\ ServeFrame

\* A fetchPostComments that finds no comment on any post.
fetchPostComments_NoComments(ok, count) == 0

\* fetchPostComments(postId), counted: response.data.comments, or [] in catch.
fetchPostComments(ok, count) == IF ok THEN count ELSE 0

\* One turn of the loop over the posts: GET /posts/:id/comments is answered
\* (ok) or fails, and fetchPostComments turns the failure into [].
FetchPostComments(p, ok) ==
  LET me == proc[p]
      post == me.acc[me.j]
      count == fetchPostComments(ok, UpstreamCommentCount(post.id))
      withComments == Append(me.withComments, PostWithComments(post, count))
      popularPosts == selectPopularPosts(withComments)
  IN  /\ me.pc = "fetchComments"
      /\ IF me.j < Len(me.acc)
           THEN Silent(p, [me EXCEPT !.withComments = withComments,
                                     !.j = me.j + 1])
           ELSE IF p = "getPopular"
             THEN ReadDone(p, "ok", 200, popularPosts, TRUE, me.failed)
             ELSE JobWrite(p, "popular", popularPosts, IdleProc, me.failed)
      /\ UNCHANGED <<client, upUsers, upPosts>>
      /\ ServeFrame

\* The collaborator gets a new post by one of its users.
UpstreamPublish(userId) ==
  /\ UpstreamChanges < MaxUpChanges
  /\ upPosts' = Append(upPosts, [userId |-> userId, comments |-> 0])
  /\ effect' = NoEffect
  /\ UNCHANGED <<client, upUsers, proc, apiCache, ttlStore, lastWrite>>
  /\ ServeFrame

\* The collaborator gets a new comment on one of its posts.
UpstreamComment(postId) ==
  /\ UpstreamChanges < MaxUpChanges
  /\ upPosts' = [upPosts EXCEPT ![postId].comments = @ + 1]
  /\ effect' = NoEffect
  /\ UNCHANGED <<client, upUsers, proc, apiCache, ttlStore, lastWrite>>
  /\ ServeFrame

\* stdTTL has run out for a key of cacheService: get returns undefined.
TTLExpire(V) ==
  /\ ttlStore[V].present
  /\ ttlStore' = [ttlStore EXCEPT ![V] = Absent]
  /\ effect' = NoEffect
  /\ UNCHANGED <<client, upUsers, upPosts, proc, apiCache, lastWrite>>
  /\ ServeFrame

\* cacheService.clearCache(): flushAll on both TTL caches.
ClearCache ==
  /\ \E V \in Views : ttlStore[V].present
  /\ ttlStore' = [V \in Views |-> Absent]
  /\ effect' = NoEffect
  /\ UNCHANGED <<client, upUsers, upPosts, proc, apiCache, lastWrite>>
  /\ ServeFrame

ServeNext ==
  \/ \E p \in Readers : ReadStart(p, SentType(p))
  \/ \E p \in Jobs : JobStart(p)
  \/ \E p \in Procs, ok \in BOOLEAN : FetchUsers(p, ok)
  \/ \E p \in Procs, ok \in BOOLEAN : FetchUserPosts(p, ok)
  \/ \E p \in Procs, ok \in BOOLEAN : FetchPostComments(p, ok)
  \/ \E userId \in {upUsers[u] : u \in 1..Len(upUsers)} : UpstreamPublish(userId)
  \/ \E i \in 1..Len(upPosts) : UpstreamComment(i)
  \/ \E V \in Views : TTLExpire(V)
  \/ ClearCache

ServeSpecInit == ServeInit /\ SelIdle /\ AuthIdle

Spec == ServeSpecInit /\ [][ServeNext]_vars

\* ------------------------------------------------------ Spec: the claims

\* How far an operation has got.
Progress(p) ==
  <<proc[p].pc, proc[p].i, proc[p].j, proc[p].acc, proc[p].withComments>>

\* The next fetch answer of a running operation finds it ready to go on: what
\* enables FetchUsers, FetchUserPosts or FetchPostComments, which is nothing
\* about any other operation.
CanStep(p) ==
  \/ proc[p].pc = "fetchUsers"
  \/ proc[p].pc = "fetchPosts" /\ proc[p].i \in 1..Len(proc[p].users)
  \/ proc[p].pc = "fetchComments" /\ proc[p].j \in 1..Len(proc[p].acc)

\* The latest step was a refresh ending because GET /users failed.
ListingFailedRefresh(e) == e.kind = "refresh" /\ e.outcome = "listingFailed"

\* C4, as stated: when the user listing fails during a scheduled refresh,
\* every cached view keeps the value it had before the cycle.
C4_ListingFailureKeepsCache ==
  [][ListingFailedRefresh(effect') =>
       apiCache' = apiCache /\ ttlStore' = ttlStore]_vars

\* C4, amended: when the user listing fails during a scheduled refresh, the
\* refresh stores [] under every view it owns (top users for updateUsersCache;
\* latest and popular for updatePostsCache), whatever was cached there; the
\* other views' entries and the TTL store keep their values.
C4_ListingFailureStoresEmpty ==
  [][ListingFailedRefresh(effect') =>
       /\ apiCache' = [V \in Views |->
                         IF V \in Covered(effect'.p) THEN Present(<<>>)
                         ELSE apiCache[V]]
       /\ ttlStore' = ttlStore]_vars

\* A refresh whose listing failed has just replaced a non-empty view by [].
C4_Witness ==
  /\ ListingFailedRefresh(effect)
  /\ effect.replaced # {}
  /\ \A V \in effect.replaced : apiCache[V] = Present(<<>>)

\* C5, as stated: a read served while the TTL store has no entry for the view
\* performs a fresh aggregation; one served while it has an entry returns it.
C5_AbsentEntryAlwaysFetches ==
  effect.kind = "read" =>
    IF effect.ttl0.present
      THEN effect.source = "ttl" /\ effect.body = effect.ttl0.value
      ELSE effect.source = "fetch"

\* C5, amended: a read returns the TTL store's entry if there is one, without
\* any fetch; if there is none but apiManager's own cache holds the view, it
\* returns that previously computed value, again without any fetch; only if
\* neither layer holds the view does it fetch from the collaborator.
C5_ReadFollowsBothLayers ==
  effect.kind = "read" =>
    IF effect.ttl0.present
      THEN effect.source = "ttl" /\ effect.body = effect.ttl0.value
           /\ effect.status = 200
      ELSE IF effect.api0.present
        THEN effect.source = "api" /\ effect.body = effect.api0.value
             /\ effect.status = 200
        ELSE effect.source = "fetch"

\* With no TTL entry, a read has just answered from apiManager's cache a view
\* that differs from what the collaborator would give now.
C5_Witness ==
  /\ effect.kind = "read"
  /\ ~effect.ttl0.present /\ effect.api0.present
  /\ effect.source = "api" /\ effect.body = effect.api0.value
  /\ effect.body # FreshView(effect.view)

\* The read started after a refresh had stored the view and ended, with no
\* other store for the view since.
ReadAfterRefresh ==
  /\ effect.kind = "read"
  /\ effect.prior.by \in Jobs
  /\ proc[effect.prior.by].pc = "idle"

\* C6, as stated: a GET that starts after a refresh has completed, with no
\* other write in between, returns the view computed by that refresh.
C6_ReadReturnsRefreshedView ==
  ReadAfterRefresh => effect.body = effect.prior.value

\* C6, amended: a refresh overwrites apiManager's cache only, not the TTL
\* store the handler consults first.  A GET after the refresh returns the
\* refreshed view if the TTL store has no entry for the view, and the TTL
\* store's entry, whatever the refresh computed, if it has one.
C6_ReadReturnsRefreshedViewUnlessTtlEntry ==
  (effect.kind = "read" /\ effect.prior.by \in Jobs) =>
    IF effect.ttl0.present
      THEN effect.source = "ttl" /\ effect.body = effect.ttl0.value
      ELSE effect.source = "api" /\ effect.body = effect.prior.value

\* After a refresh a read has just answered the TTL store's entry, which is
\* not the view the refresh stored.
C6_Witness ==
  /\ ReadAfterRefresh
  /\ effect.ttl0.present
  /\ effect.body = effect.ttl0.value
  /\ effect.body # effect.prior.value

\* The view V as operation p, ending with effect e, has computed it: what it
\* stores in its last step or, for updatePostsCache, the latest posts it
\* stored before fetching the comments.
ComputedBy(p, V, e) ==
  IF V \in DOMAIN e.stored THEN e.stored[V] ELSE selectLatestPosts(proc[p].acc)

\* C7, as stated: when a cold-start read and a refresh of the same view
\* overlap, both complete and the view cached afterwards is the one computed
\* by whichever completed last.
C7_LastToCompleteWins ==
  [][\A p \in Procs :
       (/\ proc[p].pc # "idle" /\ proc'[p].pc = "idle"
        /\ effect'.kind # "none" /\ effect'.outcome = "ok") =>
         \A V \in Covered(p) \cap proc[p].met :
           (\A q \in Procs \ {p} : V \in Covered(q) => proc[q].pc = "idle") =>
             apiCache'[V] = Present(ComputedBy(p, V, effect'))]_vars

\* C7, amended: overlapping operations never wait for one another, and every
\* store takes effect whatever was stored meanwhile: each view's cached value
\* is the one stored last, even when computed from older data.  The last to
\* store need not be the last to complete: updatePostsCache stores the latest
\* posts before it fetches the comments.
C7_LastToStoreWins ==
  /\ [](/\ \A p \in InFlight : CanStep(p)
        /\ \A V \in Views :
             lastWrite[V].layer \in {"api", "both"} =>
               apiCache[V] = Present(lastWrite[V].value)
        /\ effect.kind # "none" =>
             \A V \in DOMAIN effect.stored :
               apiCache[V] = Present(effect.stored[V]))
  /\ [][\A p \in Procs : \A q \in Procs \ {p} :
          ~(Progress(p)' # Progress(p) /\ Progress(q)' # Progress(q))]_vars

\* An operation has just stored a view that another operation had stored
\* while it ran: what it replaced is what the collaborator holds now, what it
\* stored is not, and the cache holds what it stored.
C7_Witness ==
  /\ effect.kind # "none"
  /\ \E V \in effect.raced \cap effect.stale :
       /\ apiCache[V] = Present(effect.stored[V])
       /\ apiCache[V].value # FreshView(V)

\* The handler has just answered a cold read during which fetchUsers threw
\* (the credential exchange or GET /users failed).
ListingFailedRead == effect.kind = "read" /\ effect.outcome = "listingFailed"

\* C11: on a cold cache, a failure of the credential exchange or of
\* the user listing makes every one of the three endpoints answer HTTP 500.
C11_ListingFailureAnswers500 ==
  ListingFailedRead => effect.status = 500

\* GET /posts?type=latest has just answered 200 with [] although the listing
\* failed, and [] is what both layers now hold for the view.
C11_Witness ==
  /\ ListingFailedRead
  /\ effect.p = "getLatest"
  /\ effect.status = 200 /\ effect.body = <<>>
  /\ ttlStore["latest"] = Present(<<>>) /\ apiCache["latest"] = Present(<<>>)

\* A refresh has just completed.
RefreshCompleted == effect.kind = "refresh" /\ effect.done

\* C14: once a scheduled refresh of a view has completed, no later read of
\* that view starts an aggregation.  A completed refresh leaves each of its
\* views in the apiManager cache, an entry of that cache is never removed,
\* and a read starts fetching only when its view is not in it; so a read that
\* has fetched started cold, before any refresh had stored the view.
C14_NoFetchAfterRefresh ==
  /\ [](/\ RefreshCompleted =>
             \A V \in Covered(effect.p) : apiCache[V].present
        /\ (effect.kind = "read" /\ effect.source = "fetch") =>
             ~effect.api0.present /\ effect.prior.by \notin Jobs)
  /\ [][/\ \A V \in Views : apiCache[V].present => apiCache'[V].present
        /\ \A p \in Readers :
             (proc[p].pc = "idle" /\ proc'[p].pc # "idle") =>
               ~apiCache[ReadView(p)].present /\ lastWrite[ReadView(p)].by \notin Jobs]_vars

\* After a refresh had stored the view and ended, and the TTL store had lost
\* its entry, a read has just been answered from the apiManager cache with no
\* operation fetching.
C14_Witness ==
  /\ effect.kind = "read" /\ effect.source = "api"
  /\ effect.prior.by \in Jobs /\ effect.prior.layer = "api"
  /\ ~effect.ttl0.present
  /\ InFlight = {}

\* C16: when the user listing is answered with zero users, getTopUsers,
\* getLatestPosts, getPopularPosts and both refreshes produce []: the three
\* endpoints answer 200 with [], never 500, and a refresh leaves [] for each
\* of its views.
C16_NoUsersGiveEmptyViews ==
  (Len(upUsers) = 0 /\ effect.kind \in {"read", "refresh"}
   /\ effect.outcome # "listingFailed") =>
    /\ effect.outcome \in {"ok", "empty"}
    /\ effect.kind = "read" =>
         /\ effect.status = 200 /\ effect.body = <<>>
         /\ ttlStore[effect.view] = Present(<<>>)
    /\ effect.kind = "refresh" =>
         /\ effect.done
         /\ \A V \in Covered(effect.p) : apiCache[V] = Present(<<>>)

\* With zero users GET /posts?type=popular has just fetched the listing and
\* answered 200 with [], which getPopularPosts has not cached.
C16_Witness ==
  /\ Len(upUsers) = 0
  /\ effect.kind = "read" /\ effect.p = "getPopular" /\ effect.source = "fetch"
  /\ effect.outcome = "empty"
  /\ effect.status = 200 /\ effect.body = <<>>
  /\ ~apiCache["popular"].present

\* --------------------------------------------------------------- SpecAgg

\* The collaborator's data is laid out first; then one operation is chosen
\* and runs, again and again, with nothing else going on.
AggInit ==
  /\ client = "none"
  /\ upUsers \in {[i \in 1..n |-> i] : n \in 0..MaxAggUsers}
  /\ upPosts = <<>>
  /\ proc = [p \in Procs |-> IdleProc]
  /\ apiCache = [V \in Views |-> Absent]
  /\ ttlStore = [V \in Views |-> Absent]
  /\ effect = NoEffect
  /\ lastWrite = [V \in Views |-> NoWrite]

AggPublish(userId) ==
  /\ client = "none"
  /\ UpstreamChanges < MaxAggChanges
  /\ upPosts' = Append(upPosts, [userId |-> userId, comments |-> 0])
  /\ UNCHANGED <<client, upUsers, proc, apiCache, ttlStore, effect, lastWrite>>
  /\ ServeFrame

AggComment(postId) ==
  /\ client = "none"
  /\ UpstreamChanges < MaxAggChanges
  /\ upPosts' = [upPosts EXCEPT ![postId].comments = @ + 1]
  /\ UNCHANGED <<client, upUsers, proc, apiCache, ttlStore, effect, lastWrite>>
  /\ ServeFrame

\* The operation this run is about: a handler or a scheduled refresh.
AggChoose(p) ==
  /\ client = "none"
  /\ client' = p
  /\ UNCHANGED <<upUsers, upPosts, proc, apiCache, ttlStore, effect, lastWrite>>
  /\ ServeFrame

AggStart ==
  \/ client \in Readers /\ \E q \in TypeValues : ReadStart(client, q)
  \/ client \in Jobs /\ JobStart(client)

\* Comment fetches are answered; the listing and the fetches of a user's
\* posts are answered or fail.
AggNext ==
  \/ \E userId \in {upUsers[u] : u \in 1..Len(upUsers)} : AggPublish(userId)
  \/ \E i \in 1..Len(upPosts) : AggComment(i)
  \/ \E p \in Procs : AggChoose(p)
  \/ AggStart
  \/ \E q \in TypeValues : RejectPosts(q)
  \/ \E p \in Procs, ok \in BOOLEAN : FetchUsers(p, ok)
  \/ \E p \in Procs, ok \in BOOLEAN : FetchUserPosts(p, ok)
  \/ \E p \in Procs : FetchPostComments(p, TRUE)

AggSpecInit == AggInit /\ SelIdle /\ AuthIdle

SpecAgg == AggSpecInit /\ [][AggNext]_vars

\* ------------------------------------------------------ SpecAgg: the claims

\* What the collaborator holds for a user whose posts could be fetched, and
\* nothing for a user whose fetch failed.
PostsUnlessFailed(id, failed) ==
  IF id \in failed THEN <<>> ELSE UpstreamPostsOf(id)

\* The user aggregation and the aggregated post list after the first n users,
\* given the users whose fetch failed.
RECURSIVE ExpectedUserWithPosts(_, _, _)
ExpectedUserWithPosts(users, n, failed) ==
  IF n = 0 THEN <<>>
  ELSE Append(ExpectedUserWithPosts(users, n - 1, failed),
              [id |-> users[n], name |-> NameOf(users[n]),
               postCount |-> Len(PostsUnlessFailed(users[n], failed))])

RECURSIVE ExpectedAllPosts(_, _, _)
ExpectedAllPosts(users, n, failed) ==
  IF n = 0 THEN <<>>
  ELSE ExpectedAllPosts(users, n - 1, failed)
       \o [k \in 1..Len(PostsUnlessFailed(users[n], failed)) |->
             [id |-> PostsUnlessFailed(users[n], failed)[k].id,
              userId |-> users[n], username |-> NameOf(users[n])]]

UsersKind == {"getUsers", "jobUsers"}

\* C12: a failing fetchUserPosts does not abort the aggregation.  While the
\* loop over the users runs, and when fetchAllPosts has returned, the list
\* holds exactly the posts of the users whose fetch succeeded, each tagged
\* with its owner's name, and none of a failing user; the user aggregation
\* holds every user, a failing one with postCount 0, and so does the view
\* computed from it.
C12_PartialFailureIsAbsorbed ==
  /\ \A p \in Procs :
       /\ proc[p].pc = "fetchPosts" =>
            proc[p].acc =
              IF p \in UsersKind
                THEN ExpectedUserWithPosts(proc[p].users, proc[p].i - 1,
                                           proc[p].failed)
                ELSE ExpectedAllPosts(proc[p].users, proc[p].i - 1,
                                      proc[p].failed)
       /\ proc[p].pc = "fetchComments" =>
            proc[p].acc = ExpectedAllPosts(proc[p].users, Len(proc[p].users),
                                           proc[p].failed)
  /\ (effect.kind # "none" /\ effect.outcome = "ok"
      /\ "users" \in DOMAIN effect.stored) =>
       /\ effect.stored["users"] =
            selectTopUsers(ExpectedUserWithPosts(upUsers, Len(upUsers),
                                                 effect.failed))
       /\ Len(upUsers) <= TopK =>
            \A id \in effect.failed :
              \E k \in 1..Len(effect.stored["users"]) :
                /\ effect.stored["users"][k].id = id
                /\ effect.stored["users"][k].postCount = 0
  /\ (effect.kind # "none" /\ effect.outcome = "ok"
      /\ "latest" \in DOMAIN effect.stored) =>
       effect.stored["latest"] =
         selectLatestPosts(ExpectedAllPosts(upUsers, Len(upUsers),
                                            effect.failed))

\* fetchAllPosts has returned after the fetch failed for a user who has
\* posts and succeeded for another who has posts: the list holds posts, and
\* none of the failing user.
C12_Witness ==
  \E p \in Procs :
    /\ proc[p].pc = "fetchComments"
    /\ \E id \in proc[p].failed : Len(UpstreamPostsOf(id)) > 0
    /\ Len(proc[p].acc) > 0
    /\ \A k \in 1..Len(proc[p].acc) : proc[p].acc[k].userId \notin proc[p].failed

\* A refresh has just stored or ended with every fetch of its run answered.
CleanRefresh ==
  effect.kind = "refresh" /\ effect.failed = {} /\ effect.outcome # "listingFailed"

PostsArrived ==
  /\ effect.kind \in {"read", "routed", "rejected"}
  /\ effect.p # "getUsers"
  /\ effect.query # Earlier

\* C13: GET /posts with a type value other than 'latest' or 'popular' answers
\* HTTP 400 with an error body.
C13_OtherTypeAnswers400 ==
  (PostsArrived /\ effect.query \notin {NoType, "latest", "popular"}) =>
    effect.kind = "rejected" /\ effect.status = 400

\* C13, amended: GET /posts with a non-empty type other than 'latest' or
\* 'popular' answers HTTP 400 with an error body, starts no fetch and leaves
\* both cache layers and the token state as they were.  An empty type, like a
\* missing one, is read as 'latest' and served.
C13_NonEmptyOtherTypeAnswers400 ==
  /\ [](PostsArrived =>
          /\ effect.kind = "rejected" <=>
               effect.query \notin {NoType, "", "latest", "popular"}
          /\ effect.kind = "rejected" =>
               effect.status = 400 /\ effect.body # <<>>
          /\ effect.kind # "rejected" =>
               /\ effect.p = "getPopular" <=> effect.query = "popular"
               /\ effect.kind = "read" => effect.status = 200)
  /\ [][effect'.kind = "rejected" =>
          UNCHANGED <<proc, apiCache, ttlStore, lastWrite, upUsers, upPosts,
                      authVars>>]_vars

\* The 400 answer has just been sent for type=recent while both cache
\* layers hold the latest posts: they still do.
C13_Witness ==
  /\ effect.kind = "rejected" /\ effect.query = "recent" /\ effect.status = 400
  /\ ttlStore["latest"].present /\ apiCache["latest"].present
  /\ apiCache["latest"].value # <<>>

\* GET /posts?type= (empty) has just been served the latest posts.
C13_EmptyTypeServed ==
  /\ effect.kind = "read" /\ effect.query = "" /\ effect.p = "getLatest"
  /\ effect.status = 200 /\ effect.body # <<>>

\* --------------------------------------------------------------- SpecTtl
\* cacheService alone, with a clock: one setter/getter pair is exercised by
\* its caller (client), ttlStore holds what NodeCache keeps per key, lastWrite
\* what was set last and when, effect what the latest get returned.

\* cacheManager.js: the stdTTL of usersCache and of postsCache, in seconds.
usersCacheTTL == 300
postsCacheTTL == 120

\* The setter/getter pairs: get/setUsers, get/setTopUsers, get/setUserPosts
\* (for one user id), get/setLatestPosts, get/setPopularPosts.
CachePairs == {"Users", "TopUsers", "UserPosts", "LatestPosts", "PopularPosts"}

\* The NodeCache instance behind a pair.
CacheOf(pair) ==
  IF pair \in {"Users", "TopUsers"} THEN "usersCache" ELSE "postsCache"

stdTTL(cache) == IF cache = "usersCache" THEN usersCacheTTL ELSE postsCacheTTL

\* The values set: two arrays that differ.
CacheValues == {<<1>>, <<2>>}

\* A key NodeCache does not hold, and one it holds until t.
NoEntry == [present |-> FALSE, value |-> <<>>, t |-> 0]

Entry(value, t) == [present |-> TRUE, value |-> value, t |-> t]

\* An entry that never expires.
NodeCache_expired_Never(entry, at) == FALSE

\* NodeCache _check: the entry's time is behind the clock.
NodeCache_expired(entry, at) == entry.t < at

\* What was set last for a pair: nothing yet, or value at the instant at,
\* and whether clearCache has run since.
NeverSet == [set |-> FALSE, value |-> <<>>, at |-> 0, cleared |-> FALSE]

TtlFrame ==
  UNCHANGED <<selVars, authToken, timers, inflight, issued, lastReturn,
              pendingFailure, lastCall, scheduled, upUsers, upPosts, proc,
              apiCache>>

TtlInit ==
  /\ client \in CachePairs
  /\ upUsers = <<>> /\ upPosts = <<>> /\ proc = <<>> /\ apiCache = <<>>
  /\ ttlStore = [k \in CachePairs |-> NoEntry]
  /\ effect = NoEffect
  /\ lastWrite = [k \in CachePairs |-> NeverSet]

\* cacheService.setX(value): NodeCache set with the store's stdTTL.
CacheSet(pair, value) ==
  /\ pair = client
  /\ ttlStore' = [ttlStore EXCEPT
                    ![pair] = Entry(value, now + stdTTL(CacheOf(pair)))]
  /\ lastWrite' = [lastWrite EXCEPT
                     ![pair] = [set |-> TRUE, value |-> value, at |-> now,
                                cleared |-> FALSE]]
  /\ effect' = NoEffect
  /\ UNCHANGED <<now, client>>
  /\ TtlFrame

\* cacheService.getX(): NodeCache get returns the value of a key it holds
\* that has not expired, and undefined (Absent) otherwise, deleting an
\* expired key.
CacheGet(pair) ==
  LET e == ttlStore[pair]
      hit == e.present /\ ~NodeCache_expired(e, now)
  IN  /\ pair = client
      /\ effect' = [kind |-> "get", pair |-> pair,
                    returned |-> IF hit THEN Present(e.value) ELSE Absent]
      /\ ttlStore' = IF hit THEN ttlStore ELSE [ttlStore EXCEPT ![pair] = NoEntry]
      /\ UNCHANGED <<now, client, lastWrite>>
      /\ TtlFrame

\* cacheService.clearCache(): flushAll on usersCache and postsCache.
CacheClear ==
  /\ ttlStore' = [k \in CachePairs |-> NoEntry]
  /\ lastWrite' = [k \in CachePairs |->
                     IF lastWrite[k].set THEN [lastWrite[k] EXCEPT !.cleared = TRUE]
                     ELSE lastWrite[k]]
  /\ effect' = NoEffect
  /\ UNCHANGED <<now, client>>
  /\ TtlFrame

\* Time passes.
TtlTick ==
  /\ now + TtlStep <= TtlMaxTime
  /\ now' = now + TtlStep
  /\ effect' = NoEffect
  /\ UNCHANGED <<client, ttlStore, lastWrite>>
  /\ TtlFrame

TtlNext ==
  \/ \E pair \in CachePairs, value \in CacheValues : CacheSet(pair, value)
  \/ \E pair \in CachePairs : CacheGet(pair)
  \/ CacheClear
  \/ TtlTick

TtlSpecInit == TtlInit /\ SelIdle /\ AuthIdle

SpecTtl == TtlSpecInit /\ [][TtlNext]_vars

\* ------------------------------------------------------ SpecTtl: the claims

\* The time since the pair was last set.
SinceSet(pair) == now - lastWrite[pair].at

\* C17: for each setter/getter pair, a get after a set returns the value set
\* while the store's TTL has not elapsed since the set and clearCache has not
\* run in between; once the TTL has elapsed, or after clearCache, or with
\* nothing ever set, the get returns undefined.
C17_GetReturnsLiveValueOnly ==
  effect.kind = "get" =>
    LET w == lastWrite[effect.pair]
        ttl == IF effect.pair \in {"Users", "TopUsers"} THEN 300 ELSE 120
    IN  /\ (w.set /\ ~w.cleared /\ SinceSet(effect.pair) < ttl) =>
             effect.returned = Present(w.value)
        /\ (~w.set \/ w.cleared \/ SinceSet(effect.pair) > ttl) =>
             effect.returned = Absent

\* getLatestPosts has just returned undefined for a value set more than 120
\* seconds earlier and not cleared since.
C17_Witness ==
  /\ effect.kind = "get" /\ effect.pair = "LatestPosts"
  /\ lastWrite["LatestPosts"].set /\ ~lastWrite["LatestPosts"].cleared
  /\ SinceSet("LatestPosts") > 120
  /\ effect.returned = Absent

\* getTopUsers has just returned the value set between 120 and 300 seconds
\* earlier.
C17_LiveWitness ==
  /\ effect.kind = "get" /\ effect.pair = "TopUsers"
  /\ SinceSet("TopUsers") > 120 /\ SinceSet("TopUsers") < 300
  /\ effect.returned = Present(lastWrite["TopUsers"].value)

\* -------------------------------------------------------------- SpecHeap
\* One MinHeap (selMode "users") or one MaxHeap keyed by commentCount
\* (selMode "popular") under any sequence of its operations.  selHeap is its
\* array, selIdx numbers the items inserted, selOut is the latest call and
\* what it returned, selInput the keys returned by the extracts made since
\* the latest insert.

HeapKeyOf(item) ==
  IF selMode = "users" THEN item.postCount ELSE item.commentCount

HeapItem(mode, id, k) ==
  IF mode = "users" THEN [id |-> id, postCount |-> k]
  ELSE [id |-> id, commentCount |-> k]

Called(op, result) == [op |-> op, result |-> result]

HeapInit ==
  /\ selMode \in {"users", "popular"}
  /\ selInput = <<>> /\ selIdx = 1 /\ selHeap = <<>> /\ selAux = 0
  /\ selOut = Called("new", Null)
  /\ selPc = "heap"

\* heap.insert(item)
HeapInsert(k) ==
  LET item == HeapItem(selMode, selIdx, k) IN
  /\ selPc = "heap" /\ selIdx <= MaxHeapInserts
  /\ selHeap' = IF selMode = "users" THEN MinHeap_insert(selHeap, item)
                ELSE MaxHeap_insert("commentCount", selHeap, item)
  /\ selIdx' = selIdx + 1
  /\ selOut' = Called("insert", item)
  /\ selInput' = <<>>
  /\ UNCHANGED <<selMode, selAux, selPc>>
  /\ SelFrame

\* heap.extractMin() / heap.extractMax()
HeapExtract ==
  LET r == IF selMode = "users"
             THEN MinHeap_extractMin(selHeap).min
             ELSE MaxHeap_extractMax("commentCount", selHeap).max
      h == IF selMode = "users"
             THEN MinHeap_extractMin(selHeap).heap
             ELSE MaxHeap_extractMax("commentCount", selHeap).heap
  IN  /\ selPc = "heap"
      /\ selHeap' = h
      /\ selOut' = Called("extract", r)
      /\ selInput' = IF r = Null THEN selInput ELSE Append(selInput, HeapKeyOf(r))
      /\ UNCHANGED <<selMode, selIdx, selAux, selPc>>
      /\ SelFrame

\* maxHeap.peek()
HeapPeek ==
  /\ selPc = "heap" /\ selMode = "popular"
  /\ selOut' = Called("peek", MaxHeap_peek(selHeap))
  /\ UNCHANGED <<selMode, selInput, selIdx, selHeap, selAux, selPc>>
  /\ SelFrame

HeapNext ==
  \/ \E k \in 0..MaxHeapKey : HeapInsert(k)
  \/ HeapExtract
  \/ HeapPeek

HeapSpecInit == HeapInit /\ AuthIdle /\ ServeIdle

SpecHeap == HeapSpecInit /\ [][HeapNext]_vars

\* ----------------------------------------------------- SpecHeap: the claims

\* No element is below its parent (MinHeap) or above it (MaxHeap).
HeapOrdered ==
  \A i \in 2..Len(selHeap) :
    IF selMode = "users"
      THEN HeapKeyOf(selHeap[i \div 2]) <= HeapKeyOf(selHeap[i])
      ELSE HeapKeyOf(selHeap[i \div 2]) >= HeapKeyOf(selHeap[i])

\* item is a minimum (MinHeap) or a maximum (MaxHeap) of heap.
Extremal(item, heap) ==
  \A i \in 1..Len(heap) :
    IF selMode = "users" THEN HeapKeyOf(item) <= HeapKeyOf(heap[i])
    ELSE HeapKeyOf(item) >= HeapKeyOf(heap[i])

\* C19: after any sequence of inserts and extracts MinHeap has
\* postCount(parent) <= postCount(child) and MaxHeap key(parent) >=
\* key(child) at every index; an extract removes exactly one element, an
\* extremal one, and returns it; successive extractMax calls return keys in
\* non-increasing order (extractMin: non-decreasing); peek returns a maximum
\* and removes nothing; on an empty heap peek and extract return null and
\* leave it empty.
C19_HeapOrderAndExtraction ==
  /\ [](/\ HeapOrdered
        /\ \A i \in 1..(Len(selInput) - 1) :
             IF selMode = "users" THEN selInput[i] <= selInput[i + 1]
             ELSE selInput[i] >= selInput[i + 1]
        /\ selOut.op = "peek" =>
             IF Len(selHeap) = 0 THEN selOut.result = Null
             ELSE selOut.result = selHeap[1] /\ Extremal(selOut.result, selHeap))
  /\ [][selOut'.op = "extract" =>
          IF Len(selHeap) = 0
            THEN selOut'.result = Null /\ selHeap' = <<>>
            ELSE /\ selOut'.result \in Retained(selHeap)
                 /\ Extremal(selOut'.result, selHeap)
                 /\ Len(selHeap') = Len(selHeap) - 1
                 /\ Retained(selHeap') = Retained(selHeap) \ {selOut'.result}]_vars
  /\ [][selOut'.op = "insert" =>
          /\ Len(selHeap') = Len(selHeap) + 1
          /\ Retained(selHeap') = Retained(selHeap) \cup {selOut'.result}]_vars

\* A MaxHeap that has taken inserts after extracts has just returned, by
\* three extracts in a row, keys that go down, and still holds an element.
C19_Witness ==
  /\ selPc = "heap" /\ selMode = "popular"
  /\ selOut.op = "extract" /\ selOut.result # Null
  /\ Len(selInput) = 3 /\ selInput[1] > selInput[3]
  /\ Len(selHeap) = 1
  /\ selOut.result.id < selIdx - 2

\* extractMin on an empty MinHeap has just returned null.
C19_EmptyWitness ==
  /\ selPc = "heap" /\ selMode = "users"
  /\ selOut = Called("extract", Null) /\ selHeap = <<>> /\ selIdx > 1

====
